---- MODULE Spec2Model ----
(***************************************************************************)
(* fox-monitor: a host telemetry sampler.  main() (src/src/main.rs)        *)
(* installs a SIGINT handler, starts the foxglove WebSocket server,        *)
(* constructs the sysinfo handles of the enabled categories and then       *)
(* samples and publishes one record per enabled category per loop          *)
(* iteration until the handler's flag is set or the timeout has elapsed.   *)
(*                                                                         *)
(* The main thread is modelled statement by statement (pc), the signal     *)
(* handler as a concurrent action.  The sysinfo provider is an             *)
(* environment: each read returns one of a small set of snapshots.         *)
(***************************************************************************)
EXTENDS Integers, Sequences, FiniteSets, TLC

VARIABLES
    args,                  \* Cli: the seven flags, the interval and the optional timeout
    targetExists,          \* environment: a file output.mcap exists beforehand
    pc,                    \* position of the main thread in main()
    done,                  \* the AtomicBool shared with the SIGINT handler
    handlerInstalled,      \* ctrlc::set_handler has succeeded
    sinks,                 \* sinks attached to the default foxglove context
    closeCalls,            \* per sink: number of explicit close/stop calls
    constructed,           \* per provider handle: number of constructions
    startupRefreshes,      \* per category: loads of its data before the loop
    refreshCalls,          \* per category: refresh calls made inside the loop
    delivered,             \* per sink, per channel: records delivered
    tickLog,               \* channels logged in the current iteration, in order
    elapsed_time_seconds,  \* the loop counter of main()
    ticksStarted,          \* history: iterations whose body was entered
    provider,              \* per handle: what the handle holds since its last refresh
    osBytes,               \* the operating system's cumulative byte counter
    osBytesPrev,           \* history: osBytes before it last advanced
    lastInput,             \* provider snapshot read for the last record
    lastRecord,            \* the last record handed to a channel
    exitStatus             \* Some(process exit status), None while running

vars == << args, targetExists, pc, done, handlerInstalled, sinks, closeCalls,
           constructed, startupRefreshes, refreshCalls, delivered, tickLog,
           elapsed_time_seconds, ticksStarted, provider, osBytes,
                    osBytesPrev, lastInput, lastRecord, exitStatus >>

-----------------------------------------------------------------------------
(* Bounds of the model *)

\* Largest timeout explored, and the cap on iterations when there is none.
MaxTicks == 2

-----------------------------------------------------------------------------
(* Option values *)

None == [some |-> FALSE]

Some(v) == [some |-> TRUE, val |-> v]

UnwrapOr(opt, default) == IF opt.some THEN opt.val ELSE default

-----------------------------------------------------------------------------
(* Channels, sinks, provider handles *)

CPU == "/cpu"

MEMORY == "/memory"

COMPONENTS == "/components"

DISKS == "/disks"

NETWORKS == "/networks"

PROCESSES == "/processes"

SYSTEM == "/system"

Channels == {CPU, MEMORY, COMPONENTS, DISKS, NETWORKS, PROCESSES, SYSTEM}

LiveFeed == "LiveFeed"

DurableRecorder == "DurableRecorder"

Sinks == {LiveFeed, DurableRecorder}

Handles == {"system", "components", "disks", "networks"}

\* The sinks the documented default configuration (format = both) selects.
SelectedSinks == {LiveFeed, DurableRecorder}

\* The flag of Cli that enables a channel.
Enabled(ch) ==
    CASE ch = CPU        -> args.cpu
      [] ch = MEMORY     -> args.memory
      [] ch = COMPONENTS -> args.temperature
      [] ch = DISKS      -> args.disks
      [] ch = NETWORKS   -> args.networks
      [] ch = PROCESSES  -> args.processes
      [] ch = SYSTEM     -> args.system

\* The provider handle a channel's data is read from ("none" for /system,
\* which uses associated functions of System only).
HandleOf(ch) ==
    CASE ch \in {CPU, MEMORY, PROCESSES} -> "system"
      [] ch = COMPONENTS -> "components"
      [] ch = DISKS      -> "disks"
      [] ch = NETWORKS   -> "networks"
      [] ch = SYSTEM     -> "none"

\* Values of --interval (milliseconds) explored; 1000 is the default.
Intervals == {100, 1000}

Cli ==
    [cpu : BOOLEAN, memory : BOOLEAN, temperature : BOOLEAN, disks : BOOLEAN,
     networks : BOOLEAN, processes : BOOLEAN, system : BOOLEAN,
     interval : Intervals,
     timeout : {None} \cup {Some(n) : n \in 0..MaxTicks}]

PanicStatus == 101

NoRecord == [channel |-> "none"]

-----------------------------------------------------------------------------
(* Text conversions used by the CPU record.  A string is a sequence of      *)
(* one-character strings.                                                   *)

DigitChars == << "0", "1", "2", "3", "4", "5", "6", "7", "8", "9" >>

U16Max == 65535

UnknownText == << "U", "n", "k", "n", "o", "w", "n" >>

\* usize::to_string
RECURSIVE to_string(_)
to_string(n) ==
    IF n < 10 THEN << DigitChars[n + 1] >>
    ELSE to_string(n \div 10) \o << DigitChars[(n % 10) + 1] >>

\* str::trim
RECURSIVE Trim(_)
Trim(s) ==
    IF s = << >> THEN s
    ELSE IF Head(s) = " " THEN Trim(Tail(s))
    ELSE IF s[Len(s)] = " " THEN Trim(SubSeq(s, 1, Len(s) - 1))
    ELSE s

DigitValue(c) == (CHOOSE i \in 1..10 : DigitChars[i] = c) - 1

IsDigit(c) == \E i \in 1..10 : DigitChars[i] = c

RECURSIVE DecimalValue(_)
DecimalValue(s) ==
    IF s = << >> THEN 0
    ELSE 10 * DecimalValue(SubSeq(s, 1, Len(s) - 1)) + DigitValue(s[Len(s)])

\* str::parse::<u16>: an optional "+", then one or more digits, value in range.
ParseU16(s) ==
    LET body == IF s # << >> /\ Head(s) = "+" THEN Tail(s) ELSE s
    IN  IF body = << >> \/ \E i \in DOMAIN body : ~IsDigit(body[i]) THEN None
        ELSE IF DecimalValue(body) > U16Max THEN None
        ELSE Some(DecimalValue(body))

\* The physical_cores expression of log_cpu_info.
PhysicalCores(count) ==
    UnwrapOr(ParseU16(Trim(IF count.some THEN to_string(count.val)
                                          ELSE UnknownText)), 0)

\* OsStr::to_str: text only when the name is valid UTF-8.
ToStr(os) == IF os.utf8 THEN Some(os.text) ELSE None

-----------------------------------------------------------------------------
(* Provider snapshots: what sysinfo can return to one read *)

CoreInput == [usage |-> 12, frequency |-> 2400, vendor_id |-> "GenuineIntel",
              brand |-> "Core"]

CpuInputs ==
    {[global_cpu_usage |-> 10, physical_core_count |-> c, cpus |-> << CoreInput >>] :
        c \in {None, Some(4), Some(70000)}}

MemoryInputs ==
    {[total_memory |-> 8000, available_memory |-> 5000, used_memory |-> 3000,
      total_swap |-> 2000, used_swap |-> u] : u \in {0, 100}}

SensorInputs == {[label |-> "cpu_thermal", temperature |-> t] : t \in {None, Some(55)}}

ComponentsInputs ==
    {<< >>} \cup {<< c >> : c \in SensorInputs}
            \cup {<< [label |-> "nvme", temperature |-> Some(40)], c >> : c \in SensorInputs}

OsNames == {[utf8 |-> TRUE, text |-> "sda"], [utf8 |-> FALSE]}

\* What a handle holds: the number of refreshes it went through, the
\* cumulative counter it saw at the last one, and the difference to the
\* counter it saw at the one before.
NoHandle == [refreshes |-> 0, total |-> 0, delta |-> 0]

\* System::new_all(), X::new_with_refreshed_list(): a first load.
Loaded(bytes) == [refreshes |-> 1, total |-> bytes, delta |-> 0]

\* X::refresh(..) on an existing handle: the delta is taken against the
\* counter the handle kept from its previous refresh.
Refreshed(state, bytes) ==
    [refreshes |-> state.refreshes + 1, total |-> bytes,
     delta |-> bytes - state.total]

\* The operating system's counter after a stretch of time with traffic.
Advance(bytes) == bytes + 1500

\* d.usage() of the one disk of a Disks handle in state `state`.
DiskInput(n, m, state) ==
    [name |-> n, mount_point |-> m,
     usage |-> [total_read_bytes |-> state.total,
                total_written_bytes |-> 2 * state.total,
                read_bytes |-> state.delta,
                written_bytes |-> 2 * state.delta]]

DisksInputs(state) ==
    {<< >>} \cup {<< DiskInput(n, m, state) >> : n \in OsNames, m \in OsNames}

NetworksInputs(state) ==
    {<< >>,
     << [interface_name |-> "eth0", mac_address |-> "00:11:22:33:44:55",
         received |-> state.delta, transmitted |-> 2 * state.delta,
         total_received |-> state.total,
         total_transmitted |-> 2 * state.total] >>}

ProcessInput(pid, parent) ==
    [pid |-> pid, parent |-> parent, name |-> "init", status |-> "Sleeping",
     cpu_usage |-> 1, memory |-> 4096, start_time |-> 1000, run_time |-> 50]

ProcessesInputs ==
    {<< >>} \cup {<< ProcessInput(1, None), ProcessInput(7, par) >> : par \in {None, Some(1)}}

SystemInputs ==
    {[name |-> n, kernel_version |-> k, os_version |-> n, long_os_version |-> k,
      host_name |-> h, boot_time |-> 1000, uptime |-> 60,
      load_average |-> [one |-> 1, five |-> 2, fifteen |-> 3]] :
        n \in {None, Some("Linux")}, k \in {None, Some("6.1")},
        h \in {None, Some("fox")}}

-----------------------------------------------------------------------------
(* Record construction: the struct literals of the log_*_info functions *)

CoreStats(c) ==
    [usage |-> c.usage, frequency_mhz |-> c.frequency,
     vendor_id |-> c.vendor_id, brand |-> c.brand]

CpuStats(sys) ==
    [usage |-> sys.global_cpu_usage,
     physical_cores |-> PhysicalCores(sys.physical_core_count),
     cores |-> [i \in DOMAIN sys.cpus |-> CoreStats(sys.cpus[i])]]

MemoryStats(sys) ==
    [total_kb |-> sys.total_memory, available_kb |-> sys.available_memory,
     used_kb |-> sys.used_memory, swap_total_kb |-> sys.total_swap,
     swap_used_kb |-> sys.used_swap]

ComponentStats(c) ==
    [label |-> c.label, temperature |-> UnwrapOr(c.temperature, 0)]

ComponentsStats(components) ==
    [components |-> [i \in DOMAIN components |-> ComponentStats(components[i])]]

DiskStats(d) ==
    [name |-> UnwrapOr(ToStr(d.name), "Unknown"),
     mount_point |-> UnwrapOr(ToStr(d.mount_point), "Unknown"),
     total_read_kb |-> d.usage.total_read_bytes \div 1024,
     total_written_kb |-> d.usage.total_written_bytes \div 1024,
     read_kb |-> d.usage.read_bytes \div 1024,
     written_kb |-> d.usage.written_bytes \div 1024]

DisksStats(disks) == [disks |-> [i \in DOMAIN disks |-> DiskStats(disks[i])]]

NetworkStats(n) ==
    [interface_name |-> n.interface_name, mac_address |-> n.mac_address,
     received |-> n.received, transmitted |-> n.transmitted,
     total_received |-> n.total_received,
     total_transmitted |-> n.total_transmitted]

NetworksStats(networks) == [networks |-> [i \in DOMAIN networks |-> NetworkStats(networks[i])]]

\* ParentPid with an empty text for a missing parent.
ParentPid_Empty(parent) == IF parent.some THEN to_string(parent.val) ELSE << >>

ParentPid(parent) == IF parent.some THEN to_string(parent.val) ELSE UnknownText

ProcessStats(p) ==
    [pid |-> p.pid, parent_pid |-> ParentPid(p.parent), name |-> p.name,
     status |-> p.status, cpu_usage |-> p.cpu_usage,
     memory_usage_kb |-> p.memory \div 1024,
     start_time_seconds |-> p.start_time, run_time_seconds |-> p.run_time]

ProcessesStats(processes) == [processes |-> [i \in DOMAIN processes |-> ProcessStats(processes[i])]]

SystemStats(os) ==
    [name |-> UnwrapOr(os.name, "<unknown>"),
     kernel_version |-> UnwrapOr(os.kernel_version, "<unknown>"),
     os_version |-> UnwrapOr(os.os_version, "<unknown>"),
     os_long_version |-> UnwrapOr(os.long_os_version, "<unknown>"),
     host_name |-> UnwrapOr(os.host_name, "<unknown>"),
     kernel |-> UnwrapOr(os.kernel_version, "<unknown>"),
     boot_time_seconds |-> os.boot_time,
     uptime_seconds |-> os.uptime,
     load_avg_one |-> os.load_average.one,
     load_avg_five |-> os.load_average.five,
     load_avg_fifteen |-> os.load_average.fifteen]

-----------------------------------------------------------------------------
(* Initial state: main() entered, arguments parsed *)

Init ==
    /\ args \in Cli
    /\ targetExists \in BOOLEAN
    /\ pc = "set_handler"
    /\ done = FALSE
    /\ handlerInstalled = FALSE
    /\ sinks = {}
    /\ closeCalls = [s \in Sinks |-> 0]
    /\ constructed = [h \in Handles |-> 0]
    /\ startupRefreshes = [ch \in Channels |-> 0]
    /\ refreshCalls = [ch \in Channels |-> 0]
    /\ delivered = [s \in Sinks |-> [ch \in Channels |-> 0]]
    /\ tickLog = << >>
    /\ elapsed_time_seconds = 0
    /\ ticksStarted = 0
    /\ provider = [h \in Handles |-> NoHandle]
    /\ osBytes = 1500
    /\ osBytesPrev = osBytes
    /\ lastInput = NoRecord
    /\ lastRecord = NoRecord
    /\ exitStatus = None

-----------------------------------------------------------------------------
(* Startup: main() up to the loop *)

\* Every variable the startup statements leave alone.
LoopState == << done, refreshCalls, delivered, tickLog, elapsed_time_seconds,
                ticksStarted,
                lastInput, lastRecord, closeCalls, args, targetExists >>

\* The counters of the operating system, which the program never writes.
OsState == << osBytes, osBytesPrev >>

\* .expect(...) on an Err: the panic ends the process with status 101.
Panic ==
    /\ pc' = "Aborted"
    /\ exitStatus' = Some(PanicStatus)

\* ctrlc::set_handler(...).expect("Failed to set SIGINT handler")
SetHandler ==
    /\ pc = "set_handler"
    /\ \E ok \in BOOLEAN :
          IF ok THEN /\ handlerInstalled' = TRUE
                     /\ pc' = "start_server"
                     /\ UNCHANGED exitStatus
                ELSE /\ Panic
                     /\ UNCHANGED handlerInstalled
    /\ UNCHANGED << LoopState, OsState, sinks, constructed, startupRefreshes,
                    provider >>


\* StartServer with the Result dropped instead of .expect(...).
StartServer_ErrorIgnored ==
    /\ pc = "start_server"
    /\ \E ok \in BOOLEAN :
          sinks' = IF ok THEN sinks \cup {LiveFeed} ELSE sinks
    /\ pc' = "new_system"
    /\ UNCHANGED << LoopState, OsState, handlerInstalled, constructed,
                    startupRefreshes, provider, exitStatus >>

\* WebSocketServer::new().start_blocking().expect("Server failed to start");
\* the returned handle is dropped at the end of the statement, the server
\* keeps running as a sink of the default context.
StartServer ==
    /\ pc = "start_server"
    /\ \E ok \in BOOLEAN :
          IF ok THEN /\ sinks' = sinks \cup {LiveFeed}
                     /\ pc' = "new_system"
                     /\ UNCHANGED exitStatus
                ELSE /\ Panic
                     /\ UNCHANGED sinks
    /\ UNCHANGED << LoopState, OsState, handlerInstalled, constructed,
                    startupRefreshes, provider >>

\* A handle constructor: counts the construction and the load of the data
\* of the categories the constructor reads.
Construct(h, loaded) ==
    /\ constructed' = [constructed EXCEPT ![h] = @ + 1]
    /\ provider' = [provider EXCEPT ![h] = Loaded(osBytes)]
    /\ startupRefreshes' =
          [ch \in Channels |->
              IF ch \in loaded THEN startupRefreshes[ch] + 1
                               ELSE startupRefreshes[ch]]

\* let mut system = if args.cpu || args.memory || args.processes
\*                  { Some(System::new_all()) } else { None };
NewSystem ==
    /\ pc = "new_system"
    /\ IF args.cpu \/ args.memory \/ args.processes
       THEN Construct("system", {CPU, MEMORY, PROCESSES})
       ELSE UNCHANGED << constructed, startupRefreshes, provider >>
    /\ pc' = "new_components"
    /\ UNCHANGED << LoopState, OsState, handlerInstalled, sinks, exitStatus >>

NewComponents ==
    /\ pc = "new_components"
    /\ IF args.temperature
       THEN Construct("components", {COMPONENTS})
       ELSE UNCHANGED << constructed, startupRefreshes, provider >>
    /\ pc' = "new_disks"
    /\ UNCHANGED << LoopState, OsState, handlerInstalled, sinks, exitStatus >>


\* NewDisks without the test of the flag.
NewDisks_Always ==
    /\ pc = "new_disks"
    /\ Construct("disks", {DISKS})
    /\ pc' = "new_networks"
    /\ UNCHANGED << LoopState, OsState, handlerInstalled, sinks, exitStatus >>

NewDisks ==
    /\ pc = "new_disks"
    /\ IF args.disks
       THEN Construct("disks", {DISKS})
       ELSE UNCHANGED << constructed, startupRefreshes, provider >>
    /\ pc' = "new_networks"
    /\ UNCHANGED << LoopState, OsState, handlerInstalled, sinks, exitStatus >>

NewNetworks ==
    /\ pc = "new_networks"
    /\ IF args.networks
       THEN Construct("networks", {NETWORKS})
       ELSE UNCHANGED << constructed, startupRefreshes, provider >>
    /\ pc' = "refresh_all"
    /\ UNCHANGED << LoopState, OsState, handlerInstalled, sinks, exitStatus >>

\* Option::is_some of a handle variable of main().
IsSome(h) == constructed[h] > 0

\* if let Some(sys) = system.as_mut() { sys.refresh_all(); }
\* The operating system's counter moves on between the construction of the
\* handles and the first iteration.
RefreshAll ==
    /\ pc = "refresh_all"
    /\ IF IsSome("system")
       THEN /\ startupRefreshes' =
               [ch \in Channels |->
                   IF ch \in {CPU, MEMORY, PROCESSES} THEN startupRefreshes[ch] + 1
                                                      ELSE startupRefreshes[ch]]
            /\ provider' = [provider EXCEPT !["system"] = Refreshed(@, osBytes)]
       ELSE UNCHANGED << startupRefreshes, provider >>
    /\ osBytes' = Advance(osBytes)
    /\ osBytesPrev' = osBytes
    /\ pc' = "loop"
    /\ UNCHANGED << LoopState, handlerInstalled, sinks, constructed, exitStatus >>

-----------------------------------------------------------------------------
(* The loop *)

\* Every variable the statements of the loop body leave alone.
StartupState == << args, targetExists, done, handlerInstalled, sinks, closeCalls,
                   constructed, startupRefreshes, ticksStarted, exitStatus >>


\* Continue with <= for < (off by one).
Continue_OffByOne ==
    /\ ~done
    /\ (args.timeout.some => elapsed_time_seconds <= args.timeout.val)

\* The while condition.
Continue ==
    /\ ~done
    /\ (args.timeout.some => elapsed_time_seconds < args.timeout.val)

LoopCheck ==
    /\ pc = "loop"
    /\ IF Continue
       THEN /\ elapsed_time_seconds < MaxTicks
            /\ pc' = "log_cpu"
            /\ tickLog' = << >>
            /\ ticksStarted' = ticksStarted + 1
            /\ UNCHANGED exitStatus
       ELSE /\ pc' = "Stopped"
            /\ exitStatus' = Some(0)
            /\ UNCHANGED << tickLog, ticksStarted >>
    /\ UNCHANGED << args, targetExists, done, handlerInstalled, sinks, closeCalls,
                    constructed, startupRefreshes, refreshCalls, delivered,
                    elapsed_time_seconds, provider, osBytes, osBytesPrev,
                    lastInput, lastRecord >>

\* A refresh call on the handle of a category.
Refresh(ch) ==
    /\ refreshCalls' = [refreshCalls EXCEPT ![ch] = @ + 1]
    /\ provider' = [provider EXCEPT ![HandleOf(ch)] = Refreshed(@, osBytes)]

\* Channel::log: the record goes to every sink attached to the context.
Log(ch, input, msg) ==
    /\ delivered' = [s \in Sinks |->
                        IF s \in sinks THEN [delivered[s] EXCEPT ![ch] = @ + 1]
                                       ELSE delivered[s]]
    /\ tickLog' = Append(tickLog, ch)
    /\ lastInput' = [channel |-> ch, data |-> input]
    /\ lastRecord' = [channel |-> ch, msg |-> msg]

Skip == UNCHANGED << refreshCalls, provider, delivered, tickLog, lastInput, lastRecord >>

log_cpu_info ==
    \E sys \in CpuInputs : Refresh(CPU) /\ Log(CPU, sys, CpuStats(sys))

log_memory_info ==
    \E sys \in MemoryInputs : Refresh(MEMORY) /\ Log(MEMORY, sys, MemoryStats(sys))

log_components_info ==
    \E components \in ComponentsInputs :
        Refresh(COMPONENTS) /\ Log(COMPONENTS, components, ComponentsStats(components))

\* disks.refresh(true); DISKS.log(&DisksStats { disks: disks.iter()... })
log_disks_info ==
    /\ Refresh(DISKS)
    /\ \E disks \in DisksInputs(provider'["disks"]) :
          Log(DISKS, disks, DisksStats(disks))

\* log_networks_info that builds the record first and refreshes afterwards.
log_networks_info_ReadFirst ==
    /\ \E networks \in NetworksInputs(provider["networks"]) :
          Log(NETWORKS, networks, NetworksStats(networks))
    /\ Refresh(NETWORKS)

\* networks.refresh(true); NETWORKS.log(&NetworksStats { networks: networks.iter()... })
log_networks_info ==
    /\ Refresh(NETWORKS)
    /\ \E networks \in NetworksInputs(provider'["networks"]) :
          Log(NETWORKS, networks, NetworksStats(networks))

log_processes_info ==
    \E processes \in ProcessesInputs :
        Refresh(PROCESSES) /\ Log(PROCESSES, processes, ProcessesStats(processes))

log_system_info ==
    \E os \in SystemInputs :
        Log(SYSTEM, os, SystemStats(os)) /\ UNCHANGED << refreshCalls, provider >>

\* if args.cpu || args.memory || args.processes { if let Some(sys) = ... {
SystemGroup == (args.cpu \/ args.memory \/ args.processes) /\ IsSome("system")

StepCpu ==
    /\ pc = "log_cpu"
    /\ IF SystemGroup /\ args.cpu THEN log_cpu_info ELSE Skip
    /\ pc' = "log_memory"
    /\ UNCHANGED << StartupState, OsState, elapsed_time_seconds >>


\* StepMemory with the flag of the neighbouring block (a copy-paste slip).
StepMemory_CpuFlag ==
    /\ pc = "log_memory"
    /\ IF SystemGroup /\ args.cpu THEN log_memory_info ELSE Skip
    /\ pc' = "log_processes"
    /\ UNCHANGED << StartupState, OsState, elapsed_time_seconds >>

StepMemory ==
    /\ pc = "log_memory"
    /\ IF SystemGroup /\ args.memory THEN log_memory_info ELSE Skip
    /\ pc' = "log_processes"
    /\ UNCHANGED << StartupState, OsState, elapsed_time_seconds >>

StepProcesses ==
    /\ pc = "log_processes"
    /\ IF SystemGroup /\ args.processes THEN log_processes_info ELSE Skip
    /\ pc' = "log_components"
    /\ UNCHANGED << StartupState, OsState, elapsed_time_seconds >>

StepComponents ==
    /\ pc = "log_components"
    /\ IF args.temperature /\ IsSome("components") THEN log_components_info ELSE Skip
    /\ pc' = "log_disks"
    /\ UNCHANGED << StartupState, OsState, elapsed_time_seconds >>


\* StepDisks that gives the iteration up once the flag is set.
StepDisks_Preempted ==
    /\ pc = "log_disks"
    /\ IF args.disks /\ IsSome("disks") /\ ~done THEN log_disks_info ELSE Skip
    /\ pc' = "log_networks"
    /\ UNCHANGED << StartupState, OsState, elapsed_time_seconds >>

StepDisks ==
    /\ pc = "log_disks"
    /\ IF args.disks /\ IsSome("disks") THEN log_disks_info ELSE Skip
    /\ pc' = "log_networks"
    /\ UNCHANGED << StartupState, OsState, elapsed_time_seconds >>

StepNetworks ==
    /\ pc = "log_networks"
    /\ IF args.networks /\ IsSome("networks") THEN log_networks_info ELSE Skip
    /\ pc' = "log_system"
    /\ UNCHANGED << StartupState, OsState, elapsed_time_seconds >>

StepSystem ==
    /\ pc = "log_system"
    /\ IF args.system THEN log_system_info ELSE Skip
    /\ pc' = "sleep"
    /\ UNCHANGED << StartupState, OsState, elapsed_time_seconds >>

\* Sleep that counts the seconds slept instead of the iterations.
Sleep_Seconds ==
    /\ pc = "sleep"
    /\ elapsed_time_seconds' = elapsed_time_seconds + (args.interval \div 1000)
    /\ osBytes' = Advance(osBytes)
    /\ osBytesPrev' = osBytes
    /\ pc' = "loop"
    /\ UNCHANGED << StartupState, refreshCalls, provider, delivered, tickLog,
                    lastInput, lastRecord >>

\* std::thread::sleep(interval); elapsed_time_seconds = elapsed_time_seconds + 1;
\* The operating system's counter moves on while the thread sleeps.
Sleep ==
    /\ pc = "sleep"
    /\ elapsed_time_seconds' = elapsed_time_seconds + 1
    /\ osBytes' = Advance(osBytes)
    /\ osBytesPrev' = osBytes
    /\ pc' = "loop"
    /\ UNCHANGED << StartupState, refreshCalls, provider, delivered, tickLog,
                    lastInput, lastRecord >>

-----------------------------------------------------------------------------
(* The SIGINT handler, on the thread ctrlc spawns *)

\* Sigint that ends the process from inside the handler.
Sigint_Exit ==
    /\ handlerInstalled
    /\ pc \notin {"Stopped", "Aborted"}
    /\ done' = TRUE
    /\ pc' = "Stopped"
    /\ exitStatus' = Some(130)
    /\ UNCHANGED << args, targetExists, handlerInstalled, sinks, closeCalls,
                    constructed, startupRefreshes, refreshCalls, delivered, tickLog,
                    elapsed_time_seconds, ticksStarted, provider, osBytes,
                    osBytesPrev, lastInput, lastRecord >>

\* move || { done.store(true, Ordering::Relaxed); }
Sigint ==
    /\ handlerInstalled
    /\ pc \notin {"Stopped", "Aborted"}
    /\ done' = TRUE
    /\ UNCHANGED << args, targetExists, pc, handlerInstalled, sinks, closeCalls,
                    constructed, startupRefreshes, refreshCalls, delivered, tickLog,
                    elapsed_time_seconds, ticksStarted, provider, osBytes,
                    osBytesPrev, lastInput, lastRecord, exitStatus >>

-----------------------------------------------------------------------------
(* Specifications *)

MainStep ==
    \/ SetHandler
    \/ StartServer
    \/ NewSystem
    \/ NewComponents
    \/ NewDisks
    \/ NewNetworks
    \/ RefreshAll
    \/ LoopCheck
    \/ StepCpu
    \/ StepMemory
    \/ StepProcesses
    \/ StepComponents
    \/ StepDisks
    \/ StepNetworks
    \/ StepSystem
    \/ Sleep

Next == MainStep \/ Sigint

Spec == Init /\ [][Next]_vars

\* The main thread is a running OS thread: it always takes its next step.
FairSpec == Spec /\ WF_vars(MainStep)

-----------------------------------------------------------------------------
(* LoggerCollection (src/src/logger.rs): the same sampling as one object.   *)
(* main() does not use it; it is modelled as a specification of its own,    *)
(* a caller that constructs the collection and calls log_all repeatedly.    *)

\* LoggerCollection::new: the System handle is constructed whatever the
\* flags are, the three optional handles as in main().
LoggerInit ==
    /\ args \in Cli
    /\ targetExists \in BOOLEAN
    /\ pc = "la_cpu"
    /\ done = FALSE
    /\ handlerInstalled = FALSE
    /\ sinks = {}
    /\ closeCalls = [s \in Sinks |-> 0]
    /\ constructed =
          [h \in Handles |->
              IF \/ h = "system"
                 \/ h = "components" /\ args.temperature
                 \/ h = "disks" /\ args.disks
                 \/ h = "networks" /\ args.networks
              THEN 1 ELSE 0]
    /\ startupRefreshes =
          [ch \in Channels |->
              IF \/ ch \in {CPU, MEMORY, PROCESSES}
                 \/ ch = COMPONENTS /\ args.temperature
                 \/ ch = DISKS /\ args.disks
                 \/ ch = NETWORKS /\ args.networks
              THEN 1 ELSE 0]
    /\ refreshCalls = [ch \in Channels |-> 0]
    /\ delivered = [s \in Sinks |-> [ch \in Channels |-> 0]]
    /\ tickLog = << >>
    /\ elapsed_time_seconds = 0
    /\ ticksStarted = 0
    /\ osBytes = 1500
    /\ osBytesPrev = osBytes
    /\ provider = [h \in Handles |->
                        IF constructed[h] = 1 THEN Loaded(osBytes) ELSE NoHandle]
    /\ lastInput = NoRecord
    /\ lastRecord = NoRecord
    /\ exitStatus = None

\* One block of log_all: `enabled` is the block's condition, `body` its
\* refresh and log.
LogAllBlock(at, enabled, body, next) ==
    /\ pc = at
    /\ IF enabled THEN body ELSE Skip
    /\ pc' = next
    /\ UNCHANGED << StartupState, OsState, elapsed_time_seconds >>

LogAllCpu == LogAllBlock("la_cpu", args.cpu, log_cpu_info, "la_memory")

LogAllMemory == LogAllBlock("la_memory", args.memory, log_memory_info, "la_components")

LogAllComponents ==
    LogAllBlock("la_components", IsSome("components"), log_components_info, "la_disks")

LogAllDisks == LogAllBlock("la_disks", IsSome("disks"), log_disks_info, "la_networks")

LogAllNetworks ==
    LogAllBlock("la_networks", IsSome("networks"), log_networks_info, "la_processes")

LogAllProcesses ==
    LogAllBlock("la_processes", args.processes, log_processes_info, "la_system")

LogAllSystem == LogAllBlock("la_system", args.system, log_system_info, "la_return")

\* The caller calls log_all again.
LogAllAgain ==
    /\ pc = "la_return"
    /\ \A ch \in Channels : refreshCalls[ch] < MaxTicks
    /\ pc' = "la_cpu"
    /\ tickLog' = << >>
    /\ UNCHANGED << StartupState, OsState, elapsed_time_seconds, refreshCalls,
                    provider, delivered, lastInput, lastRecord >>

LoggerNext ==
    \/ LogAllCpu
    \/ LogAllMemory
    \/ LogAllComponents
    \/ LogAllDisks
    \/ LogAllNetworks
    \/ LogAllProcesses
    \/ LogAllSystem
    \/ LogAllAgain

LoggerSpec == LoggerInit /\ [][LoggerNext]_vars

-----------------------------------------------------------------------------
(* Vocabulary of the properties *)

\* The category order the specification gives (it is the order of the
\* blocks of LoggerCollection::log_all).
CategoryOrder == << CPU, MEMORY, COMPONENTS, DISKS, NETWORKS, PROCESSES, SYSTEM >>

Rank(ch) == CHOOSE i \in DOMAIN CategoryOrder : CategoryOrder[i] = ch

Count(log, ch) == Cardinality({i \in DOMAIN log : log[i] = ch})

TickBody == {"log_cpu", "log_memory", "log_processes", "log_components",
             "log_disks", "log_networks", "log_system"}

Running == TickBody \cup {"loop", "sleep"}

Terminal == {"Stopped", "Aborted"}

NothingDelivered == \A s \in Sinks : \A ch \in Channels : delivered[s][ch] = 0

-----------------------------------------------------------------------------
(* C1 *)

\* C1: for every configuration of the seven flags, an iteration of the loop
\* publishes exactly one record on the channel of each enabled category and
\* none on the channel of a disabled one: when the body of an iteration is
\* complete its log holds each enabled channel once and no other, the Live
\* Feed has received one record per enabled channel per completed iteration,
\* and a disabled channel never carries a record.
C1_OneRecordPerEnabledCategory ==
    /\ \A ch \in Channels :
          ~Enabled(ch) => \A s \in Sinks : delivered[s][ch] = 0
    /\ pc = "sleep" =>
          \A ch \in Channels :
             /\ Count(tickLog, ch) = (IF Enabled(ch) THEN 1 ELSE 0)
             /\ delivered[LiveFeed][ch] =
                   (IF Enabled(ch) THEN elapsed_time_seconds + 1 ELSE 0)
    /\ pc \in {"loop", "Stopped"} =>
          \A ch \in Channels :
             delivered[LiveFeed][ch] =
                (IF Enabled(ch) THEN elapsed_time_seconds ELSE 0)

\* The second iteration is complete with some categories on and some off.
C1_Witness ==
    /\ pc = "sleep"
    /\ elapsed_time_seconds = 1
    /\ args.memory /\ args.networks /\ ~args.cpu /\ ~args.system
    /\ delivered[LiveFeed][MEMORY] = 2
    /\ delivered[LiveFeed][CPU] = 0

-----------------------------------------------------------------------------
(* C2 *)

\* C2: with a timeout of N iterations and no interrupt the run makes exactly
\* N iterations, every selected sink (Live Feed and Durable Recorder under
\* the documented default format, both) receives exactly N records on each
\* enabled channel and none on any other, and the process exits with
\* status 0.
C2_TimeoutRunExact ==
    (pc = "Stopped" /\ args.timeout.some /\ ~done) =>
        /\ exitStatus = Some(0)
        /\ elapsed_time_seconds = args.timeout.val
        /\ \A s \in SelectedSinks : \A ch \in Channels :
              delivered[s][ch] = (IF Enabled(ch) THEN args.timeout.val ELSE 0)

\* What main() does achieve of C2: a run that started and was not
\* interrupted ends after exactly N iterations with status 0 and N records
\* per enabled channel on the Live Feed, the only sink main() opens.
TimeoutRunExactOnLiveFeed ==
    (pc = "Stopped" /\ args.timeout.some /\ ~done) =>
        /\ exitStatus = Some(0)
        /\ elapsed_time_seconds = args.timeout.val
        /\ sinks = {LiveFeed}
        /\ \A ch \in Channels :
              delivered[LiveFeed][ch] = (IF Enabled(ch) THEN args.timeout.val ELSE 0)

-----------------------------------------------------------------------------
(* C3 *)

C3_Steps ==
    /\ (pc \in TickBody /\ pc' = "sleep") =>
          \A ch \in Channels : Enabled(ch) => Count(tickLog', ch) = 1
    /\ (pc \in TickBody /\ done) => pc' \in TickBody \cup {"sleep"}
    /\ (pc = "loop" /\ done) =>
          /\ pc' \in {"loop", "Stopped"}
          /\ delivered' = delivered /\ refreshCalls' = refreshCalls
    /\ (pc = "sleep" /\ done) =>
          /\ pc' \in {"sleep", "loop"}
          /\ delivered' = delivered /\ refreshCalls' = refreshCalls
    /\ pc = "Stopped" =>
          /\ pc' = "Stopped"
          /\ delivered' = delivered /\ refreshCalls' = refreshCalls

\* C3: cancellation is cooperative.  With the flag set at any point, the
\* iteration in flight still publishes every enabled category before the
\* body ends; once the flag is seen at the top of the loop no iteration
\* begins; a flag set during the sleep is followed by the end of the sleep
\* and the exit of the loop only, with nothing sampled or published; and
\* after Stopped nothing is sampled or published.  Under fairness of the
\* main thread a flag set during the sleep leads to Stopped.
C3_CooperativeCancellation ==
    /\ [][C3_Steps]_vars
    /\ (done /\ pc = "sleep") ~> (pc = "Stopped")

\* An interrupted run without timeout has stopped after one full iteration
\* of at least two records.
C3_Witness ==
    /\ pc = "Stopped"
    /\ done
    /\ ~args.timeout.some
    /\ elapsed_time_seconds = 1
    /\ Len(tickLog) >= 2
    /\ \A ch \in Channels : Enabled(ch) => delivered[LiveFeed][ch] = 1

-----------------------------------------------------------------------------
(* C4 *)

\* C4: within every iteration the enabled categories are published in the
\* order CPU, Memory, Thermal, Disk, Network, Process, SystemIdentity: of two
\* records of one iteration the one of the earlier category comes first.
C4_FixedCategoryOrder ==
    \A i, j \in DOMAIN tickLog :
        i < j => Rank(tickLog[i]) < Rank(tickLog[j])

\* The order main() does publish in: the three categories of the shared
\* System handle first.
MainOrder == << CPU, MEMORY, PROCESSES, COMPONENTS, DISKS, NETWORKS, SYSTEM >>

PublishedInMainOrder ==
    \A i, j \in DOMAIN tickLog :
        i < j => (CHOOSE k \in DOMAIN MainOrder : MainOrder[k] = tickLog[i])
                   < (CHOOSE k \in DOMAIN MainOrder : MainOrder[k] = tickLog[j])

-----------------------------------------------------------------------------
(* C5 *)

\* C5 as stated: for a disabled category no handle is constructed and its
\* data is never refreshed, at startup or in the loop; a handle none of
\* whose categories is enabled is never constructed.
C5_DisabledNeverConstructedNorRefreshed ==
    /\ \A ch \in Channels :
          ~Enabled(ch) => refreshCalls[ch] = 0 /\ startupRefreshes[ch] = 0
    /\ \A h \in Handles :
          (\A ch \in Channels : HandleOf(ch) = h => ~Enabled(ch)) =>
              constructed[h] = 0

\* C5 (amended): a disabled category is never refreshed inside the loop; a
\* handle none of whose categories is enabled is never constructed and its
\* data never loaded (so a disabled Thermal, Disk or Network category is
\* neither constructed nor refreshed, and without CPU, Memory and Process
\* the shared System handle is never constructed); but once one of CPU,
\* Memory and Process is enabled, startup loads the data of all three on
\* the shared handle, twice (System::new_all, then refresh_all).
C5_DisabledNotSampled ==
    /\ \A ch \in Channels : ~Enabled(ch) => refreshCalls[ch] = 0
    /\ \A h \in Handles :
          (\A ch \in Channels : HandleOf(ch) = h => ~Enabled(ch)) =>
              /\ constructed[h] = 0
              /\ \A ch \in Channels : HandleOf(ch) = h => startupRefreshes[ch] = 0
    /\ \A ch \in Channels : HandleOf(ch) = "none" => startupRefreshes[ch] = 0
    /\ (pc \in Running \cup {"Stopped"} /\ IsSome("system")) =>
          \A ch \in {CPU, MEMORY, PROCESSES} : startupRefreshes[ch] = 2

\* A run with CPU only has made an iteration: memory and process data were
\* loaded at startup and never refreshed since; no disks handle exists.
C5_Witness ==
    /\ pc = "sleep"
    /\ args.cpu /\ ~args.memory /\ ~args.processes /\ ~args.disks
    /\ refreshCalls[CPU] = 1
    /\ refreshCalls[MEMORY] = 0
    /\ startupRefreshes[MEMORY] = 2
    /\ constructed["disks"] = 0

-----------------------------------------------------------------------------
(* C6 *)

\* C6: on every exit path every sink that was opened has been closed exactly
\* once: in a terminal state no sink is still open and none was closed
\* twice.
C6_SinksClosedExactlyOnce ==
    pc \in Terminal =>
        /\ sinks = {}
        /\ \A s \in Sinks : closeCalls[s] <= 1

-----------------------------------------------------------------------------
(* C7 *)

C7_Aborted ==
    pc = "Aborted" =>
        /\ exitStatus.some /\ exitStatus.val # 0
        /\ \A h \in Handles : constructed[h] = 0
        /\ \A ch \in Channels : refreshCalls[ch] = 0 /\ startupRefreshes[ch] = 0
        /\ NothingDelivered
        /\ tickLog = << >>
        /\ elapsed_time_seconds = 0

C7_Steps ==
    /\ (pc = "set_handler" /\ pc' # pc /\ ~handlerInstalled') => pc' = "Aborted"
    /\ (pc = "start_server" /\ pc' # pc /\ LiveFeed \notin sinks') => pc' = "Aborted"
    /\ pc = "Aborted" => pc' = "Aborted"
    /\ pc' \in Running => (handlerInstalled' /\ LiveFeed \in sinks')

\* C7: when the handler cannot be installed or the Live Feed cannot be
\* started the process aborts with a non-zero status before the loop is
\* entered: the statement that failed is followed by the abort only, the
\* loop is never entered without handler and Live Feed, and in the aborted
\* process no handle was constructed, nothing sampled and nothing published.
C7_StartupFailureAborts == [](C7_Aborted) /\ [][C7_Steps]_vars

\* The server failed to start after the handler was installed.
C7_Witness ==
    /\ pc = "Aborted"
    /\ handlerInstalled
    /\ sinks = {}
    /\ exitStatus = Some(PanicStatus)

-----------------------------------------------------------------------------
(* C8 *)

\* C8: with the Durable Recorder selected (the documented default format is
\* both), overwrite not given and the target file already there, startup
\* fails before any sink is opened and before the loop is entered, so
\* nothing is sampled.
C8_ExistingTargetFailsStartup ==
    (DurableRecorder \in SelectedSinks /\ targetExists) =>
        /\ sinks = {}
        /\ pc \notin Running \cup {"Stopped"}
        /\ NothingDelivered
        /\ \A ch \in Channels : refreshCalls[ch] = 0

-----------------------------------------------------------------------------
(* C9 *)

C9_Steps ==
    (pc = "loop" /\ pc' = "Stopped" /\ ~args.timeout.some) => done

\* C9: without a timeout the loop is left only with the flag set; with a
\* timeout of N the counter never passes N and a run that has entered the
\* loop always reaches Stopped, interrupted or not.
C9_StopsOnlyOnFlagOrTimeout ==
    /\ [][C9_Steps]_vars
    /\ [](args.timeout.some => elapsed_time_seconds <= args.timeout.val)
    /\ (args.timeout.some /\ pc \in Running) ~> (pc = "Stopped")

\* A run with the largest timeout stopped by the timeout alone.
C9_Witness ==
    /\ pc = "Stopped"
    /\ args.timeout = Some(MaxTicks)
    /\ ~done
    /\ elapsed_time_seconds = MaxTicks

-----------------------------------------------------------------------------
(* C10 *)

CpuFields == {"usage", "physical_cores", "cores"}

ComponentFields == {"label", "temperature"}

DiskFields == {"name", "mount_point", "total_read_kb", "total_written_kb",
               "read_kb", "written_kb"}

ProcessFields == {"pid", "parent_pid", "name", "status", "cpu_usage",
                  "memory_usage_kb", "start_time_seconds", "run_time_seconds"}

SystemFields == {"name", "kernel_version", "os_version", "os_long_version",
                 "host_name", "kernel", "boot_time_seconds", "uptime_seconds",
                 "load_avg_one", "load_avg_five", "load_avg_fifteen"}

Fallback(opt, text) == IF opt.some THEN opt.val ELSE text

C10_Cpu(in, msg) ==
    /\ DOMAIN msg = CpuFields
    /\ msg.usage = in.global_cpu_usage
    /\ Len(msg.cores) = Len(in.cpus)
    /\ msg.physical_cores =
          (IF in.physical_core_count.some /\ in.physical_core_count.val <= 65535
           THEN in.physical_core_count.val ELSE 0)

C10_Components(in, msg) ==
    /\ DOMAIN msg = {"components"}
    /\ Len(msg.components) = Len(in)
    /\ \A i \in DOMAIN in :
          /\ DOMAIN msg.components[i] = ComponentFields
          /\ msg.components[i].label = in[i].label
          /\ msg.components[i].temperature =
                (IF in[i].temperature.some THEN in[i].temperature.val ELSE 0)

C10_Disks(in, msg) ==
    /\ DOMAIN msg = {"disks"}
    /\ Len(msg.disks) = Len(in)
    /\ \A i \in DOMAIN in :
          /\ DOMAIN msg.disks[i] = DiskFields
          /\ msg.disks[i].name =
                (IF in[i].name.utf8 THEN in[i].name.text ELSE "Unknown")
          /\ msg.disks[i].mount_point =
                (IF in[i].mount_point.utf8 THEN in[i].mount_point.text ELSE "Unknown")
          /\ 1024 * msg.disks[i].total_read_kb <= in[i].usage.total_read_bytes
          /\ in[i].usage.total_read_bytes < 1024 * (msg.disks[i].total_read_kb + 1)
          /\ 1024 * msg.disks[i].read_kb <= in[i].usage.read_bytes
          /\ in[i].usage.read_bytes < 1024 * (msg.disks[i].read_kb + 1)
          /\ 1024 * msg.disks[i].written_kb <= in[i].usage.written_bytes
          /\ in[i].usage.written_bytes < 1024 * (msg.disks[i].written_kb + 1)

C10_Processes(in, msg) ==
    /\ DOMAIN msg = {"processes"}
    /\ Len(msg.processes) = Len(in)
    /\ \A i \in DOMAIN in :
          /\ DOMAIN msg.processes[i] = ProcessFields
          /\ msg.processes[i].pid = in[i].pid
          /\ msg.processes[i].name = in[i].name
          /\ msg.processes[i].memory_usage_kb = 4
          /\ ~in[i].parent.some =>
                msg.processes[i].parent_pid = << "U", "n", "k", "n", "o", "w", "n" >>
          /\ in[i].parent = Some(1) => msg.processes[i].parent_pid = << "1" >>

C10_System(in, msg) ==
    /\ DOMAIN msg = SystemFields
    /\ msg.name = Fallback(in.name, "<unknown>")
    /\ msg.kernel_version = Fallback(in.kernel_version, "<unknown>")
    /\ msg.os_version = Fallback(in.os_version, "<unknown>")
    /\ msg.os_long_version = Fallback(in.long_os_version, "<unknown>")
    /\ msg.host_name = Fallback(in.host_name, "<unknown>")
    /\ msg.kernel = Fallback(in.kernel_version, "<unknown>")
    /\ msg.boot_time_seconds = in.boot_time
    /\ msg.uptime_seconds = in.uptime

\* C10: a value the provider cannot report never aborts a record and is
\* replaced by its fallback: whatever snapshot was read for the last
\* record, the record was published on the channel of its category with
\* every field of its schema, "Unknown" for a missing parent pid, 0 for a
\* missing temperature, 0 for an unknown or unparsable core count,
\* "Unknown" for a disk name or mount point that is no text, "<unknown>" for
\* each missing system string, and the reported values everywhere else.
C10_FallbacksNeverAbort ==
    lastInput.channel # "none" =>
        /\ lastRecord.channel = lastInput.channel
        /\ delivered[LiveFeed][lastInput.channel] >= 1
        /\ lastInput.channel = CPU => C10_Cpu(lastInput.data, lastRecord.msg)
        /\ lastInput.channel = COMPONENTS =>
              C10_Components(lastInput.data, lastRecord.msg)
        /\ lastInput.channel = DISKS => C10_Disks(lastInput.data, lastRecord.msg)
        /\ lastInput.channel = PROCESSES =>
              C10_Processes(lastInput.data, lastRecord.msg)
        /\ lastInput.channel = SYSTEM => C10_System(lastInput.data, lastRecord.msg)

\* A process table holding a process without parent was sampled and
\* published, fallback in place.
C10_Witness ==
    /\ lastInput.channel = PROCESSES
    /\ Len(lastInput.data) = 2
    /\ ~lastInput.data[2].parent.some
    /\ lastRecord.channel = PROCESSES
    /\ lastRecord.msg.processes[2].parent_pid = UnknownText
    /\ lastRecord.msg.processes[2].pid = 7
    /\ delivered[LiveFeed][PROCESSES] >= 1

-----------------------------------------------------------------------------
(* C11 *)

\* Everything but the flag.
AllButDone == << args, targetExists, pc, handlerInstalled, sinks, closeCalls,
                 constructed, startupRefreshes, refreshCalls, delivered, tickLog,
                 elapsed_time_seconds, ticksStarted, provider, osBytes,
                    osBytesPrev, lastInput, lastRecord, exitStatus >>

C11_Steps ==
    /\ done => done'
    /\ done' # done => (done' = TRUE /\ UNCHANGED AllButDone)
    /\ (pc \in Terminal \/ ~handlerInstalled) => done' = done

\* C11: the handler does one thing, it sets the flag.  The flag is
\* monotonic (once true no step makes it false), every step that changes
\* the flag sets it to true and leaves every source, sink and counter as it
\* was, wherever in an iteration it falls, and no step of the main thread
\* writes the flag.
C11_HandlerOnlySetsFlag == [][C11_Steps]_vars

\* The handler ran in the middle of an iteration, after a first record, and
\* the iteration went on.
C11_Witness ==
    /\ done
    /\ pc \in TickBody
    /\ Len(tickLog) >= 1
    /\ exitStatus = None

-----------------------------------------------------------------------------
(* C12 *)

\* The categories that are read from a handle (all but /system).
SampledChannels == Channels \ {SYSTEM}

PastConstruction == {"refresh_all", "loop", "sleep", "Stopped"} \cup TickBody

InLoop == {"loop", "sleep", "Stopped"} \cup TickBody

\* Refreshes of a category's data inside the loop, as a function of the
\* position of the main thread: one per completed iteration, and one more
\* once the category's record of the iteration in flight is out.
ExpectedRefreshes(ch) ==
    elapsed_time_seconds +
        (CASE pc = "sleep" -> 1
           [] pc \in TickBody -> Count(tickLog, ch)
           [] OTHER -> 0)

C12_ConstructedOnce ==
    /\ \A h \in Handles : constructed[h] <= 1
    /\ pc \in PastConstruction =>
          \A ch \in SampledChannels : Enabled(ch) => constructed[HandleOf(ch)] = 1

C12_RefreshedOncePerTick ==
    pc \in InLoop =>
        /\ \A ch \in SampledChannels :
              Enabled(ch) => /\ refreshCalls[ch] = ExpectedRefreshes(ch)
                             /\ Count(tickLog, ch) <= 1
        /\ \A ch \in {COMPONENTS, DISKS, NETWORKS} :
              provider[HandleOf(ch)].refreshes =
                  constructed[HandleOf(ch)] + refreshCalls[ch]

C12_SharedSystemHandle ==
    pc \in InLoop /\ constructed["system"] = 1 =>
        provider["system"].refreshes =
            2 + refreshCalls[CPU] + refreshCalls[MEMORY] + refreshCalls[PROCESSES]

C12_NetworkDeltas ==
    (pc = "log_system" /\ lastRecord.channel = NETWORKS) =>
        \A i \in DOMAIN lastRecord.msg.networks :
            LET n == lastRecord.msg.networks[i] IN
                /\ n.total_received = osBytes
                /\ n.received = osBytes - osBytesPrev
                /\ n.total_transmitted = 2 * osBytes
                /\ n.transmitted = 2 * (osBytes - osBytesPrev)

C12_DiskDeltas ==
    (pc = "log_networks" /\ lastRecord.channel = DISKS) =>
        \A i \in DOMAIN lastRecord.msg.disks :
            LET d == lastRecord.msg.disks[i] IN
                /\ d.total_read_kb = osBytes \div 1024
                /\ d.read_kb = (osBytes - osBytesPrev) \div 1024
                /\ d.total_written_kb = (2 * osBytes) \div 1024
                /\ d.written_kb = (2 * (osBytes - osBytesPrev)) \div 1024

\* C12: a handle is constructed at most once, and exactly once by the end
\* of startup for every enabled category; inside the loop every enabled
\* category has been refreshed once per iteration and its record of an
\* iteration is built after that iteration's refresh: the network and disk
\* records carry the operating system's counter as of this iteration and,
\* as deltas, its growth since the previous sampling point (the previous
\* iteration's refresh, or the construction for the first iteration), not
\* since the start; the refreshes of /cpu, /memory and /processes all land
\* on the one System handle.
C12_HandlesOnceRefreshThenRead ==
    /\ C12_ConstructedOnce
    /\ C12_RefreshedOncePerTick
    /\ C12_SharedSystemHandle
    /\ C12_NetworkDeltas
    /\ C12_DiskDeltas

\* Second iteration, all three System categories, disks and networks on:
\* the network record just published carries a delta that differs from
\* the growth of the counter since the handle was constructed.
C12_Witness ==
    /\ pc = "log_system"
    /\ elapsed_time_seconds = 1
    /\ args.cpu /\ args.memory /\ args.processes /\ args.disks /\ args.networks
    /\ lastRecord.channel = NETWORKS
    /\ Len(lastRecord.msg.networks) = 1
    /\ lastRecord.msg.networks[1].received = osBytes - osBytesPrev
    /\ lastRecord.msg.networks[1].received > 0
    /\ lastRecord.msg.networks[1].received # osBytes - 1500
    /\ provider["system"].refreshes = 8
    /\ constructed = [h \in Handles |-> 1]

-----------------------------------------------------------------------------
(* C13 *)

StartupPcs == {"set_handler", "start_server", "new_system", "new_components",
               "new_disks", "new_networks", "refresh_all", "Aborted"}

C13_Counter ==
    /\ pc \in StartupPcs => elapsed_time_seconds = 0 /\ ticksStarted = 0
    /\ pc \in {"loop", "Stopped"} => elapsed_time_seconds = ticksStarted
    /\ pc \in TickBody \cup {"sleep"} => elapsed_time_seconds = ticksStarted - 1
    /\ args.timeout.some => elapsed_time_seconds <= args.timeout.val

C13_Steps ==
    elapsed_time_seconds' # elapsed_time_seconds =>
        /\ pc = "sleep" /\ pc' = "loop"
        /\ elapsed_time_seconds' = elapsed_time_seconds + 1

====
